---- MODULE Spec2Model ----
(***************************************************************************)
(* arch-updates-rs (src/src/main.rs): a tray agent that counts pending      *)
(* package updates.  Four producer threads (signal listener, timer,        *)
(* filesystem watcher, tray sink) and the event loop of main() talk over    *)
(* two mpsc channels.  Time is a clock in milliseconds.                     *)
(***************************************************************************)
EXTENDS Integers, Sequences, FiniteSets, TLC

\* ---------------------------------------------------------------- bounds
\* The clock stops at MaxTime (ms).
MaxTime == 6000
\* Raw filesystem notifications delivered to the watcher thread.
MaxNotifs == 2
\* SIGINT/SIGTERM deliveries.
MaxSignals == 2
\* Lines the external command prints in one run.
MaxLines == 2
\* inverval_in_seconds of the loaded configuration.
IntervalSecs == 3
\* Largest threshold and largest count the classifier is applied to.
MaxThreshold == 4
MaxCount == 5
\* debounce() calls made on the Debouncer when it is exercised on its own.
MaxCalls == 4

\* ------------------------------------------------------ program constants
\* Debouncer::new(Duration::from_millis(1000))
DebounceMillis == 1000
\* thread::sleep(Duration::from_secs(5))
SettleSecs == 5

\* The clock advances in steps of half a debounce window.
Step == DebounceMillis \div 2

VARIABLES
    now,        \* the monotonic clock (Instant::now()), ms since main() started
    config,     \* Config, loaded once
    appQ,       \* channel::<Event>() of main: (tx, rx)
    trayQ,      \* channel::<Event>() of setup_tray_icon: (tx, rx)
    pc,         \* main(): "boot", "start", "recv", "checking", "settling", "done"
    event,      \* the event the loop is handling (local `event`)
    exit,       \* what ended main(): "none", "shutdown", "check_failed", "panic",
                \* or one of StartupErrors
    running,    \* checkupdates child processes spawned and not yet waited for
    wake,       \* end of the loop's settle sleep
    timerWake,  \* end of the timer thread's sleep
    watcher,    \* watcher thread: "init", "watching", "failed", "panicked"
    debouncer,  \* the watcher's Debouncer
    accepted,   \* history: the accepted notifications, <<time, fired>>
    signals,    \* signals delivered so far
    tray,       \* tray sink: "init", "running", "dead"
    icon,       \* icon the tray shows
    menu,       \* entries of the tray's submenu
    arrived,    \* history: events sent to appQ during the running check
    call,       \* argument of a function applied on its own
    ret         \* its result: << >> before the call, <<result>> after

vars == << now, config, appQ, trayQ, pc, event, exit, running, wake, timerWake,
           watcher, debouncer, accepted, signals, tray, icon, menu, arrived,
           call, ret >>

\* The variables of each thread, and of the clock.
clockVars == << now, config >>
loopVars == << pc, event, exit, running, wake >>
timerVars == << timerWake >>
watchVars == << watcher, debouncer, accepted >>
signalVars == << signals >>
trayVars == << tray, icon, menu >>
fnVars == << call, ret >>
sysVars == << now, config, appQ, trayQ, pc, event, exit, running, wake, timerWake,
              watcher, debouncer, accepted, signals, tray, icon, menu, arrived >>

\* ------------------------------------------------------------- data types
SeqsUpTo(S, n) == UNION { [1..k -> S] : k \in 0..n }

IsPrefix(s, t) == Len(s) <= Len(t) /\ SubSeq(t, 1, Len(s)) = s

\* enum Event on the app channel (no sender puts Updates there, so no payload);
\* in_settle is history: the event was sent while the loop was in its settle sleep.
AppMsg(kind) == [kind |-> kind, in_settle |-> (pc = "settling")]

\* enum Event on the tray channel.
TrayMsg(kind, list) == [kind |-> kind, list |-> list]

NoEvent == [kind |-> "none", in_settle |-> FALSE]

\* Lines of the external command's output; InvalidUtf8 is a line that is not text.
InvalidUtf8 == "\\xff"
Packages == {"a", "b"}

\* One run of the external command, as the operating system presents it.
Outcomes ==
    [spawn : BOOLEAN,
     lines : SeqsUpTo(Packages \cup {InvalidUtf8}, MaxLines),
     status : {"success", "failure", "signal"},
     wait_ok : BOOLEAN]

\* The runs the event loop is exercised with.
SysOutcomes ==
    { o \in Outcomes : o.lines \in {<< >>, <<"a", "b">>, <<"a", InvalidUtf8>>} }

Ok(list) == [ok |-> TRUE, list |-> list, err |-> "none"]
Err(what) == [ok |-> FALSE, list |-> << >>, err |-> what]

\* ------------------------------------------------------- pure functions
\* Faulty variant of classify: the comparisons are <= instead of <.
classify_Inclusive(count, warning_threshold, critical_threshold) ==
    IF count = 0 THEN "None"
    ELSE IF count <= warning_threshold THEN "Normal"
    ELSE IF count <= critical_threshold THEN "Warning"
    ELSE "Critical"

\* Faulty variant of classify: the critical threshold is tested with <= instead of <.
classify_LateCritical(count, warning_threshold, critical_threshold) ==
    IF count = 0 THEN "None"
    ELSE IF count < warning_threshold THEN "Normal"
    ELSE IF count <= critical_threshold THEN "Warning"
    ELSE "Critical"

\* Event::Updates arm of the tray: which icon an update count gets.
classify(count, warning_threshold, critical_threshold) ==
    IF count = 0 THEN "None"
    ELSE IF count < warning_threshold THEN "Normal"
    ELSE IF count < critical_threshold THEN "Warning"
    ELSE "Critical"

IconOf(severity) ==
    CASE severity = "None" -> "no-updates"
      [] severity = "Normal" -> "updates"
      [] severity = "Warning" -> "updates-warn"
      [] severity = "Critical" -> "updates-critical"

\* for line in reader.lines(): the first unreadable line bails, else push.
RECURSIVE read_lines(_, _)
read_lines(rest, updates) ==
    IF rest = << >> THEN Ok(updates)
    ELSE IF Head(rest) = InvalidUtf8 THEN Err("read")
    ELSE read_lines(Tail(rest), Append(updates, Head(rest)))

\* check_updates(): spawn, read every line, wait; the exit status is not looked at.
check_updates(o) ==
    IF ~o.spawn THEN Err("spawn")
    ELSE LET r == read_lines(o.lines, << >>) IN
         IF ~r.ok THEN r
         ELSE IF ~o.wait_ok THEN Err("wait")
         ELSE Ok(r.list)

\* What main() finds when it starts: the result of `which checkupdates`,
\* XDG_RUNTIME_DIR, the lock file, the configuration file, the signal handler.
StartupEnvs ==
    [which : {"found", "missing", "cannot_run"},
     runtime_dir : BOOLEAN,
     lock_create : BOOLEAN,
     lock_free : BOOLEAN,
     config_file : {"valid", "absent", "no_config_dir", "unreadable", "malformed"},
     signals_ok : BOOLEAN]

StartupErrors ==
    {"which_failed", "not_installed", "no_runtime_dir", "lock_file", "lock_held",
     "no_config_dir", "config_unreadable", "config_malformed", "signals"}

\* verify_checkupdates_is_installed(): `which checkupdates` must run and succeed.
verify_checkupdates_is_installed(which) ==
    IF which = "cannot_run" THEN "which_failed"
    ELSE IF which = "missing" THEN "not_installed"
    ELSE "ok"

\* Config::load(): a file that does not exist is replaced by the default one.
Config_load(config_file) ==
    IF config_file = "no_config_dir" THEN "no_config_dir"
    ELSE IF config_file = "absent" THEN "ok"
    ELSE IF config_file = "unreadable" THEN "config_unreadable"
    ELSE IF config_file = "malformed" THEN "config_malformed"
    ELSE "ok"

\* Faulty variant of main_startup: no preflight, a missing command is found out
\* by the first check.
main_startup_NoPreflight(env) ==
    IF ~env.runtime_dir THEN "no_runtime_dir"
    ELSE IF ~env.lock_create THEN "lock_file"
    ELSE IF ~env.lock_free THEN "lock_held"
    ELSE IF Config_load(env.config_file) # "ok" THEN Config_load(env.config_file)
    ELSE IF ~env.signals_ok THEN "signals"
    ELSE "ok"

\* main() down to Signals::new: the first step that fails returns its error.
main_startup(env) ==
    IF verify_checkupdates_is_installed(env.which) # "ok"
    THEN verify_checkupdates_is_installed(env.which)
    ELSE IF ~env.runtime_dir THEN "no_runtime_dir"
    ELSE IF ~env.lock_create THEN "lock_file"
    ELSE IF ~env.lock_free THEN "lock_held"
    ELSE IF Config_load(env.config_file) # "ok" THEN Config_load(env.config_file)
    ELSE IF ~env.signals_ok THEN "signals"
    ELSE "ok"

\* Debouncer::new
Debouncer_new(debounce_duration) ==
    [last_trigger_time |-> now, debounce_duration |-> debounce_duration]

\* Faulty variant of debounce: every call restarts the window.
debounce_Trailing(self) ==
    IF now - self.last_trigger_time >= self.debounce_duration
    THEN [fired |-> TRUE, self |-> [self EXCEPT !.last_trigger_time = now]]
    ELSE [fired |-> FALSE, self |-> [self EXCEPT !.last_trigger_time = now]]

\* Debouncer::debounce: the result and the debouncer afterwards.
debounce(self) ==
    IF now - self.last_trigger_time >= self.debounce_duration
    THEN [fired |-> TRUE, self |-> [self EXCEPT !.last_trigger_time = now]]
    ELSE [fired |-> FALSE, self |-> self]

\* ------------------------------------------------------------------ Init
\* The configuration the event loop is exercised with (Config::load accepts any u32).
SysConfig ==
    [inverval_in_seconds |-> IntervalSecs, warning_threshold |-> 2,
     critical_threshold |-> 3]

\* main() has been entered; the threads exist once it has spawned them.
SysInit ==
    /\ now = 0
    /\ config = SysConfig
    /\ appQ = << >>
    /\ trayQ = << >>
    /\ pc = "boot"
    /\ event = NoEvent
    /\ exit = "none"
    /\ running = 0
    /\ wake = 0
    /\ timerWake = SysConfig.inverval_in_seconds * 1000
    /\ watcher = "init"
    /\ debouncer = [last_trigger_time |-> 0, debounce_duration |-> 0]
    /\ accepted = << >>
    /\ signals = 0
    /\ tray = "init"
    /\ icon = "none"
    /\ menu = << >>
    /\ arrived = 0

Init ==
    /\ SysInit
    /\ call = "none"
    /\ ret = << >>

\* Faulty variant of Alive: the threads outlive main().
Alive_Detached == TRUE

\* The threads run from their spawn in main(); main() returning (or panicking)
\* ends the process and every thread with it.
Alive == pc \notin {"boot", "done"}

\* A send to appQ; counted when it lands during a check.
Send(m) ==
    /\ appQ' = Append(appQ, m)
    /\ arrived' = IF pc = "checking" THEN arrived + 1 ELSE arrived

\* ------------------------------------------------------------ producers
\* Faulty variant of SignalArrives: the thread handles one signal and returns.
SignalArrives_Once ==
    /\ Alive
    /\ signals = 0
    /\ signals' = signals + 1
    /\ Send(AppMsg("Shutdown"))
    /\ UNCHANGED << clockVars, loopVars, timerVars, watchVars, trayVars, trayQ, fnVars >>

\* Signal thread: one Shutdown per signal.
SignalArrives ==
    /\ Alive
    /\ signals < MaxSignals
    /\ signals' = signals + 1
    /\ Send(AppMsg("Shutdown"))
    /\ UNCHANGED << clockVars, loopVars, timerVars, watchVars, trayVars, trayQ, fnVars >>

\* Timer thread: sleep(inverval_in_seconds), then send Checking.
TimerTick ==
    /\ Alive
    /\ now >= timerWake
    /\ Send(AppMsg("Checking"))
    /\ timerWake' = now + config.inverval_in_seconds * 1000
    /\ UNCHANGED << clockVars, loopVars, watchVars, signalVars, trayVars, trayQ, fnVars >>

\* Faulty variant of WatcherStart: a watcher that cannot be set up takes main() down.
WatcherStart_Fatal ==
    /\ Alive
    /\ watcher = "init"
    /\ \E ok \in BOOLEAN :
         IF ok
         THEN /\ watcher' = "watching"
              /\ debouncer' = Debouncer_new(DebounceMillis)
              /\ UNCHANGED << pc, exit >>
         ELSE /\ watcher' = "failed"
              /\ pc' = "done"
              /\ exit' = "panic"
              /\ UNCHANGED debouncer
    /\ UNCHANGED << clockVars, event, running, wake, timerVars, signalVars, trayVars,
                    appQ, trayQ, accepted, arrived, fnVars >>

\* Watcher thread: create and register the watcher, then the Debouncer.
WatcherStart ==
    /\ Alive
    /\ watcher = "init"
    /\ \E ok \in BOOLEAN :
         IF ok
         THEN /\ watcher' = "watching"
              /\ debouncer' = Debouncer_new(DebounceMillis)
         ELSE /\ watcher' = "failed"
              /\ UNCHANGED debouncer
    /\ UNCHANGED << clockVars, loopVars, timerVars, signalVars, trayVars, appQ, trayQ,
                    accepted, arrived, fnVars >>

NotifyKinds == {"CreateFile", "CreateFolder", "CloseWrite", "Modify", "Remove", "Error"}

\* The three kinds the watcher's match accepts.
Accepted(kind) == kind \in {"CreateFile", "CreateFolder", "CloseWrite"}

\* Watcher thread: one iteration of `for res in rx`.
Notify ==
    /\ Alive
    /\ watcher = "watching"
    /\ Len(accepted) < MaxNotifs
    /\ \E kind \in NotifyKinds :
         IF ~Accepted(kind)
         THEN UNCHANGED << debouncer, accepted, trayQ, watcher >>
         ELSE LET d == debounce(debouncer) IN
              /\ debouncer' = d.self
              /\ accepted' = Append(accepted, [t |-> now, fired |-> d.fired])
              /\ IF ~d.fired
                 THEN UNCHANGED << trayQ, watcher >>
                 ELSE IF tray = "dead"
                      THEN \* watcher_gtk_tx.send(..).unwrap() on a closed channel
                           /\ watcher' = "panicked"
                           /\ UNCHANGED trayQ
                      ELSE /\ trayQ' = Append(trayQ, TrayMsg("Updating", << >>))
                           /\ UNCHANGED watcher
    /\ UNCHANGED << clockVars, loopVars, timerVars, signalVars, trayVars, appQ,
                    arrived, fnVars >>

\* ------------------------------------------------------------- tray sink
\* Tray thread up to gtk::main(): any failure returns and drops rx.
TrayStart ==
    /\ Alive
    /\ tray = "init"
    /\ \E ok \in BOOLEAN :
         IF ok
         THEN /\ tray' = "running"
              /\ icon' = "no-updates"
              /\ UNCHANGED trayQ
         ELSE /\ tray' = "dead"
              /\ trayQ' = << >>
              /\ UNCHANGED icon
    /\ UNCHANGED << clockVars, loopVars, timerVars, watchVars, signalVars, appQ, menu,
                    arrived, fnVars >>

\* One iteration of `while let Ok(event) = rx.try_recv()` in the glib callback.
TrayHandle ==
    /\ Alive
    /\ tray = "running"
    /\ trayQ # << >>
    /\ LET m == Head(trayQ) IN
       \E ok \in BOOLEAN :
         IF ~ok \/ m.kind = "Shutdown"
         THEN \* ControlFlow::Break: the closure and its rx are dropped
              /\ tray' = "dead"
              /\ trayQ' = << >>
              /\ UNCHANGED << icon, menu, appQ, arrived >>
         ELSE /\ trayQ' = Tail(trayQ)
              /\ UNCHANGED tray
              /\ CASE m.kind = "Checking" ->
                        /\ icon' = "checking"
                        /\ UNCHANGED << menu, appQ, arrived >>
                   [] m.kind = "Updates" ->
                        /\ icon' = IconOf(classify(Len(m.list), config.warning_threshold,
                                                   config.critical_threshold))
                        /\ menu' = m.list
                        /\ UNCHANGED << appQ, arrived >>
                   [] m.kind = "Updating" ->
                        /\ icon' = "updating"
                        /\ Send(AppMsg("Updating"))
                        /\ UNCHANGED menu
    /\ UNCHANGED << clockVars, loopVars, timerVars, watchVars, signalVars, fnVars >>

\* ------------------------------------------------------------ event loop
\* main() from its entry to the spawning of the threads: an error returns Err
\* from main(), otherwise the channel is created and the threads are spawned.
MainStartup ==
    /\ pc = "boot"
    /\ \E env \in StartupEnvs :
         LET r == main_startup(env) IN
         IF r = "ok"
         THEN /\ pc' = "start"
              /\ UNCHANGED exit
         ELSE /\ pc' = "done"
              /\ exit' = r
    /\ UNCHANGED << clockVars, event, running, wake, timerVars, watchVars, signalVars,
                    trayVars, appQ, trayQ, arrived, fnVars >>

\* main() after the threads are spawned: tx.send(Event::Checking), enter the loop.
LoopStart ==
    /\ pc = "start"
    /\ Send(AppMsg("Checking"))
    /\ pc' = "recv"
    /\ UNCHANGED << clockVars, event, exit, running, wake, timerVars, watchVars,
                    signalVars, trayVars, trayQ, fnVars >>

\* Faulty variant of LoopIdle: events are taken while check_updates() runs.
LoopIdle_Overlapping == pc \in {"recv", "checking"}

\* rx.recv() is called only between two iterations of the loop.
LoopIdle == pc = "recv"

\* Faulty variant of OnCheckError: the error is logged but the loop goes on.
OnCheckError_Continue ==
    /\ pc' = "recv"
    /\ exit' = "check_failed"

\* Err(e) of check_updates(): log and break.
OnCheckError ==
    /\ pc' = "done"
    /\ exit' = "check_failed"

\* Faulty variant of LoopChecking: the tray is not told that a check starts.
LoopChecking_Silent ==
    /\ LoopIdle
    /\ appQ # << >>
    /\ Head(appQ).kind = "Checking"
    /\ event' = Head(appQ)
    /\ appQ' = Tail(appQ)
    /\ arrived' = 0
    /\ \E spawned \in BOOLEAN :
         IF spawned
         THEN /\ pc' = "checking"
              /\ running' = running + 1
              /\ UNCHANGED exit
         ELSE /\ OnCheckError
              /\ UNCHANGED running
    /\ UNCHANGED << clockVars, wake, timerVars, watchVars, signalVars, trayVars, trayQ,
                    fnVars >>

\* Event::Checking: tell the tray, then call check_updates(), which spawns the child.
LoopChecking ==
    /\ LoopIdle
    /\ appQ # << >>
    /\ Head(appQ).kind = "Checking"
    /\ event' = Head(appQ)
    /\ appQ' = Tail(appQ)
    /\ arrived' = 0
    /\ IF tray = "dead"
       THEN \* tray_icon_tx.send(..).unwrap() on a closed channel
            /\ pc' = "done"
            /\ exit' = "panic"
            /\ UNCHANGED << trayQ, running >>
       ELSE /\ trayQ' = Append(trayQ, TrayMsg("Checking", << >>))
            /\ \E spawned \in BOOLEAN :
                 IF spawned
                 THEN /\ pc' = "checking"
                      /\ running' = running + 1
                      /\ UNCHANGED exit
                 ELSE /\ OnCheckError
                      /\ UNCHANGED running
    /\ UNCHANGED << clockVars, wake, timerVars, watchVars, signalVars, trayVars, fnVars >>

\* Faulty variant of CheckReturns: a successful check sends no Updates message.
CheckReturns_Quiet ==
    /\ pc = "checking"
    /\ \E o \in SysOutcomes :
         /\ o.spawn
         /\ LET r == check_updates(o) IN
            /\ running' = IF r.err = "read" THEN running ELSE running - 1
            /\ IF ~r.ok
               THEN OnCheckError
               ELSE pc' = "recv" /\ UNCHANGED exit
    /\ event' = NoEvent
    /\ arrived' = 0
    /\ UNCHANGED << clockVars, appQ, trayQ, wake, timerVars, watchVars, signalVars,
                    trayVars, fnVars >>

\* check_updates() returns to the loop; a read error leaves the child unwaited.
CheckReturns ==
    /\ pc = "checking"
    /\ \E o \in SysOutcomes :
         /\ o.spawn
         /\ LET r == check_updates(o) IN
            /\ running' = IF r.err = "read" THEN running ELSE running - 1
            /\ IF ~r.ok
               THEN /\ OnCheckError
                    /\ UNCHANGED trayQ
               ELSE IF tray = "dead"
                    THEN /\ pc' = "done"
                         /\ exit' = "panic"
                         /\ UNCHANGED trayQ
                    ELSE /\ pc' = "recv"
                         /\ trayQ' = Append(trayQ, TrayMsg("Updates", r.list))
                         /\ UNCHANGED exit
    /\ event' = NoEvent
    /\ arrived' = 0
    /\ UNCHANGED << clockVars, appQ, wake, timerVars, watchVars, signalVars, trayVars,
                    fnVars >>

\* Faulty variant of LoopUpdating: no sleep, the follow-up Checking is due at once.
LoopUpdating_NoSleep ==
    /\ LoopIdle
    /\ appQ # << >>
    /\ Head(appQ).kind = "Updating"
    /\ event' = Head(appQ)
    /\ appQ' = Tail(appQ)
    /\ pc' = "settling"
    /\ wake' = now
    /\ UNCHANGED << clockVars, exit, running, timerVars, watchVars, signalVars,
                    trayVars, trayQ, arrived, fnVars >>

\* Event::Updating: sleep 5 s.
LoopUpdating ==
    /\ LoopIdle
    /\ appQ # << >>
    /\ Head(appQ).kind = "Updating"
    /\ event' = Head(appQ)
    /\ appQ' = Tail(appQ)
    /\ pc' = "settling"
    /\ wake' = now + SettleSecs * 1000
    /\ UNCHANGED << clockVars, exit, running, timerVars, watchVars, signalVars,
                    trayVars, trayQ, arrived, fnVars >>

\* Faulty variant of SettleDone: what queued up during the sleep is thrown away.
SettleDone_Supersede ==
    /\ pc = "settling"
    /\ now >= wake
    /\ appQ' = << [kind |-> "Checking", in_settle |-> FALSE] >>
    /\ pc' = "recv"
    /\ event' = NoEvent
    /\ UNCHANGED << clockVars, exit, running, wake, timerVars, watchVars, signalVars,
                    trayVars, trayQ, arrived, fnVars >>

\* The sleep is over: tx.send(Event::Checking).
SettleDone ==
    /\ pc = "settling"
    /\ now >= wake
    /\ appQ' = Append(appQ, [kind |-> "Checking", in_settle |-> FALSE])
    /\ pc' = "recv"
    /\ event' = NoEvent
    /\ UNCHANGED << clockVars, exit, running, wake, timerVars, watchVars, signalVars,
                    trayVars, trayQ, arrived, fnVars >>

\* Faulty variant of LoopShutdown: handled like Event::Updates, the loop goes on.
LoopShutdown_Ignored ==
    /\ LoopIdle
    /\ appQ # << >>
    /\ Head(appQ).kind = "Shutdown"
    /\ event' = NoEvent
    /\ appQ' = Tail(appQ)
    /\ exit' = "shutdown"
    /\ UNCHANGED << clockVars, pc, running, wake, timerVars, watchVars, signalVars,
                    trayVars, trayQ, arrived, fnVars >>

\* Event::Shutdown: break.
LoopShutdown ==
    /\ LoopIdle
    /\ appQ # << >>
    /\ Head(appQ).kind = "Shutdown"
    /\ event' = Head(appQ)
    /\ appQ' = Tail(appQ)
    /\ pc' = "done"
    /\ exit' = "shutdown"
    /\ UNCHANGED << clockVars, running, wake, timerVars, watchVars, signalVars,
                    trayVars, trayQ, arrived, fnVars >>

\* ----------------------------------------------------------------- clock
\* A thread that can run does so before the clock moves on: the clock's step is
\* long against a wake-up, and the tray polls its channel every 100 ms.
Runnable ==
    \/ pc \in {"boot", "start"}
    \/ pc = "recv" /\ appQ # << >>
    \/ pc = "settling" /\ now >= wake
    \/ now >= timerWake
    \/ watcher = "init"
    \/ tray = "init"
    \/ tray = "running" /\ trayQ # << >>

\* Time passes: in a sleep, in the external command, or with every thread blocked.
Advance ==
    /\ Alive
    /\ ~Runnable
    /\ now + Step <= MaxTime
    /\ now' = now + Step
    /\ UNCHANGED << config, loopVars, timerVars, watchVars, signalVars, trayVars, appQ,
                    trayQ, arrived, fnVars >>

Next ==
    \/ MainStartup
    \/ SignalArrives
    \/ TimerTick
    \/ WatcherStart
    \/ Notify
    \/ TrayStart
    \/ TrayHandle
    \/ LoopStart
    \/ LoopChecking
    \/ CheckReturns
    \/ LoopUpdating
    \/ SettleDone
    \/ LoopShutdown
    \/ Advance

Spec == Init /\ [][Next]_vars

\* ------------------------------------------------- the undisturbed system
\* The runs in which start-up succeeds, the tray stays alive, every check
\* succeeds and no signal arrives.
LoopStep ==
    \/ MainStartup /\ pc' = "start"
    \/ LoopStart
    \/ LoopChecking /\ pc' = "checking"
    \/ CheckReturns /\ pc' = "recv"
    \/ LoopUpdating
    \/ SettleDone

TrayStep ==
    \/ TrayStart /\ tray' = "running"
    \/ TrayHandle /\ tray' = "running"

LiveNext ==
    \/ LoopStep
    \/ TrayStep
    \/ TimerTick
    \/ WatcherStart
    \/ Notify
    \/ Advance

\* Every thread that can take a step is scheduled, the external command
\* terminates and time passes; notifications come or not.
LiveFairness ==
    /\ WF_vars(LoopStep)
    /\ WF_vars(TrayStep)
    /\ WF_vars(TimerTick)
    /\ WF_vars(WatcherStart)
    /\ WF_vars(Advance)

LiveSpec == Init /\ [][LiveNext]_vars /\ LiveFairness

\* ------------------------------------------- functions applied on their own
\* The classifier on every count and pair of thresholds up to the bounds.
ClassifyInputs ==
    [count : 0..MaxCount, warning_threshold : 0..MaxThreshold,
     critical_threshold : 0..MaxThreshold]

ClassifyInit ==
    /\ SysInit
    /\ call \in ClassifyInputs
    /\ ret = << >>

ClassifyCall ==
    /\ ret = << >>
    /\ ret' = << classify(call.count, call.warning_threshold, call.critical_threshold) >>
    /\ UNCHANGED << sysVars, call >>

ClassifySpec == ClassifyInit /\ [][ClassifyCall]_vars

\* check_updates() on every run of the external command up to the bounds.
CheckInit ==
    /\ SysInit
    /\ call \in Outcomes
    /\ ret = << >>

CheckCall ==
    /\ ret = << >>
    /\ ret' = << check_updates(call) >>
    /\ UNCHANGED << sysVars, call >>

CheckSpec == CheckInit /\ [][CheckCall]_vars

\* The Debouncer on its own: created at some time, then called at any times.
DebounceNew ==
    /\ watcher = "init"
    /\ watcher' = "watching"
    /\ debouncer' = Debouncer_new(DebounceMillis)
    /\ UNCHANGED << clockVars, loopVars, timerVars, signalVars, trayVars, appQ, trayQ,
                    accepted, arrived, fnVars >>

DebounceCall ==
    /\ watcher = "watching"
    /\ Len(accepted) < MaxCalls
    /\ LET d == debounce(debouncer) IN
       /\ debouncer' = d.self
       /\ accepted' = Append(accepted, [t |-> now, fired |-> d.fired])
    /\ UNCHANGED << clockVars, loopVars, timerVars, signalVars, trayVars, appQ, trayQ,
                    watcher, arrived, fnVars >>

DebounceTick ==
    /\ now + Step <= MaxTime
    /\ now' = now + Step
    /\ UNCHANGED << config, loopVars, timerVars, watchVars, signalVars, trayVars, appQ,
                    trayQ, arrived, fnVars >>

DebounceNext == DebounceNew \/ DebounceCall \/ DebounceTick

DebounceSpec == Init /\ [][DebounceNext]_vars

\* ----------------------------------------------------------------- claims
HasKind(q, kind) == \E i \in 1..Len(q) : q[i].kind = kind

FollowUp == [kind |-> "Checking", in_settle |-> FALSE]

\* C1: at most one external check is outstanding; no check starts while one runs;
\* while a check runs the loop takes nothing from the channel, so every event
\* that arrives meanwhile is still queued, in order, when the check completes.
C1_SingleFlight ==
    /\ [](/\ running <= 1
          /\ pc = "checking" => running = 1 /\ arrived <= Len(appQ))
    /\ [][running' > running => running = 0]_vars
    /\ [][pc = "checking" =>
            /\ IsPrefix(appQ, appQ')
            /\ pc' = "checking" => Len(appQ') - Len(appQ) = arrived' - arrived
            /\ pc' # "checking" => appQ' = appQ]_vars

\* A check is running and a Checking and an Updating event arrived meanwhile.
C1_Witness ==
    /\ pc = "checking"
    /\ arrived >= 2
    /\ HasKind(SubSeq(appQ, Len(appQ) - arrived + 1, Len(appQ)), "Checking")
    /\ HasKind(SubSeq(appQ, Len(appQ) - arrived + 1, Len(appQ)), "Updating")

\* C2: once the loop has taken a Shutdown event it has ended, with no check
\* running, and it starts no check afterwards, whatever is still queued.
C2_ShutdownStopsLoop ==
    /\ [](exit = "shutdown" => pc = "done" /\ running = 0)
    /\ [][exit' = "shutdown" => running' = running /\ trayQ' = trayQ]_vars

\* The loop ended on Shutdown with a Checking event still in the channel.
C2_Witness == exit = "shutdown" /\ HasKind(appQ, "Checking")

\* C3 as stated: an event that arrived during the settle delay is superseded, so it
\* never gets a check or a settle delay of its own.
C3_Original == ~(pc \in {"checking", "settling"} /\ event.in_settle)

\* C3 amended: the running delay is not restarted and nothing is taken from the
\* channel during it; it ends no earlier than 5 s after it began, by enqueueing
\* exactly one follow-up Checking behind the events that arrived; and each of
\* those events, once taken, is handled the usual way: a Checking runs its own
\* check, an Updating its own 5 s delay.
C3_Amended ==
    /\ [][pc # "settling" /\ pc' = "settling" => wake' = now + SettleSecs * 1000]_vars
    /\ [][pc = "settling" /\ pc' = "settling" =>
            wake' = wake /\ IsPrefix(appQ, appQ')]_vars
    /\ [][pc = "settling" /\ pc' # "settling" =>
            now >= wake /\ appQ' = Append(appQ, FollowUp)]_vars
    /\ [][event.kind = "none" /\ event'.in_settle =>
            /\ event'.kind = "Checking" =>
                 pc' = "checking" \/ exit' \in {"check_failed", "panic"}
            /\ event'.kind = "Updating" =>
                 pc' = "settling" /\ wake' = now + SettleSecs * 1000]_vars

\* A second settle delay, begun for an Updating event that arrived during the first.
C3_Witness == pc = "settling" /\ event.kind = "Updating" /\ event.in_settle

\* C4: of the first two accepted notifications, when they are less than a debounce
\* window apart, exactly one results in an Updating signal.
C4_Claim ==
    Len(accepted) >= 2 /\ accepted[2].t - accepted[1].t \in 1..(DebounceMillis - 1)
        => accepted[1].fired # accepted[2].fired

\* C5: the first debounce() call fires; a call d/2 after a call that fired is
\* suppressed; a call d after a call that fired fires.
C5_Claim ==
    /\ Len(accepted) >= 1 => accepted[1].fired
    /\ \A i, j \in 1..Len(accepted) :
         i < j /\ accepted[i].fired =>
           /\ accepted[j].t = accepted[i].t + DebounceMillis \div 2 => ~accepted[j].fired
           /\ j = i + 1 /\ accepted[j].t = accepted[i].t + DebounceMillis
                => accepted[j].fired

Classified == ret # << >>

\* C6 as stated, for warning_threshold <= critical_threshold: None at 0, Normal
\* below warning, Warning from warning to below critical, Critical from critical.
C6_Original ==
    Classified /\ call.warning_threshold <= call.critical_threshold =>
      /\ call.count = 0 => ret[1] = "None"
      /\ 0 < call.count /\ call.count < call.warning_threshold => ret[1] = "Normal"
      /\ call.warning_threshold <= call.count /\ call.count < call.critical_threshold
           => ret[1] = "Warning"
      /\ call.count >= call.critical_threshold => ret[1] = "Critical"

\* C6 amended: the same, with Critical for a count > 0 at or above critical, and
\* Warning for a count > 0 from warning to below critical.
C6_Amended ==
    Classified /\ call.warning_threshold <= call.critical_threshold =>
      /\ call.count = 0 => ret[1] = "None"
      /\ 0 < call.count /\ call.count < call.warning_threshold => ret[1] = "Normal"
      /\ 0 < call.count /\ call.warning_threshold <= call.count
                        /\ call.count < call.critical_threshold
           => ret[1] = "Warning"
      /\ 0 < call.count /\ call.count >= call.critical_threshold => ret[1] = "Critical"

\* A count equal to the critical threshold, above a smaller warning threshold.
C6_Witness ==
    /\ Classified
    /\ 0 < call.warning_threshold
    /\ call.warning_threshold < call.critical_threshold
    /\ call.count = call.critical_threshold

\* C7 as stated: for any thresholds, a count > 0 at or above critical is Critical.
C7_Original ==
    Classified /\ call.count > 0 /\ call.count >= call.critical_threshold
        => ret[1] = "Critical"

\* C7 amended: for any thresholds, a count > 0 at or above critical is Critical
\* when it is also at or above warning, and Normal when it is below warning.
C7_Amended ==
    Classified /\ call.count > 0 /\ call.count >= call.critical_threshold
        => ret[1] = IF call.count >= call.warning_threshold THEN "Critical" ELSE "Normal"

\* Inverted thresholds and a count at or above both.
C7_Witness ==
    /\ Classified
    /\ call.critical_threshold < call.warning_threshold
    /\ call.count >= call.warning_threshold

Undecodable(lines) == \E i \in 1..Len(lines) : lines[i] = InvalidUtf8

\* C8: check_updates() fails exactly when the command cannot be launched, a line
\* cannot be decoded, or the command is killed having printed nothing; otherwise
\* it returns the lines it printed.  (Stated for the runs whose wait() succeeds.)
C8_Claim ==
    ret # << >> /\ call.wait_ok =>
      /\ ~ret[1].ok <=> \/ ~call.spawn
                        \/ Undecodable(call.lines)
                        \/ call.status = "signal" /\ call.lines = << >>
      /\ ret[1].ok => ret[1].list = call.lines

\* C9: a failed check ends the loop by break, not by panic; the step that fails
\* puts no Updates message on the tray channel and takes nothing more from the
\* event channel; afterwards both channels stay as they are.
C9_FailedCheckFatal ==
    /\ [](exit = "check_failed" => pc = "done")
    /\ [][exit # "check_failed" /\ exit' = "check_failed" =>
            /\ \/ trayQ' = trayQ
               \/ pc = "recv" /\ trayQ' = Append(trayQ, TrayMsg("Checking", << >>))
            /\ pc = "checking" => appQ' = appQ]_vars
    /\ [][exit = "check_failed" => appQ' = appQ /\ trayQ' = trayQ]_vars

\* The loop ended on a failed check with events still in the channel.
C9_Witness == exit = "check_failed" /\ appQ # << >>

\* C10 as stated: after a failed check the loop still takes events, so that the
\* next timer tick or filesystem event starts a new check.
C10_Original == exit = "check_failed" => pc \in {"recv", "checking", "settling"}

\* C10 amended: after a failed check no check is retried and none is triggered
\* later: the loop has ended, and with main() the timer and the watcher, which
\* send nothing more.
C10_Amended ==
    exit = "check_failed" =>
      /\ pc = "done"
      /\ ~ENABLED LoopChecking
      /\ ~ENABLED TimerTick
      /\ ~ENABLED Notify
      /\ ~ENABLED TrayHandle

\* A check has failed and the timer's sleep is over.
C10_Witness == exit = "check_failed" /\ now >= timerWake

\* C11: after the tray sink has failed only the sink has ended: the event loop
\* does not panic on a later event and the watcher thread does not panic.
C11_Claim == tray = "dead" => exit # "panic" /\ watcher # "panicked"

\* C12: a watcher that cannot be created or registered ends only its own thread:
\* the step changes nothing else; no Updating message ever appears on either
\* channel and the loop never settles; every timer tick still enqueues a Checking
\* event, and every Checking event the loop takes (the initial one included)
\* starts a check, unless the sink is gone or the command cannot be spawned.
C12_TimerOnly ==
    /\ [][watcher # "failed" /\ watcher' = "failed" =>
            UNCHANGED << loopVars, timerVars, signalVars, trayVars, appQ, trayQ >>]_vars
    /\ [](watcher = "failed" =>
            /\ accepted = << >>
            /\ ~HasKind(appQ, "Updating") /\ ~HasKind(trayQ, "Updating")
            /\ event.kind # "Updating" /\ pc # "settling"
            /\ ~ENABLED Notify
            /\ Alive /\ now >= timerWake => ENABLED TimerTick
            /\ LoopIdle /\ appQ # << >> /\ Head(appQ).kind = "Checking"
                 => ENABLED LoopChecking)
    /\ [][watcher = "failed" /\ timerWake' # timerWake =>
            appQ' = Append(appQ, [kind |-> "Checking", in_settle |-> FALSE])]_vars
    /\ [][watcher = "failed" /\ event.kind = "none" /\ event'.kind = "Checking" =>
            \/ pc' = "checking" /\ running' = 1
            \/ exit' \in {"check_failed", "panic"}]_vars

\* The watcher has failed and a check runs for a timer tick: the timer has
\* ticked and its Checking event has been taken from the channel.
C12_Witness ==
    /\ watcher = "failed"
    /\ pc = "checking"
    /\ timerWake > config.inverval_in_seconds * 1000
    /\ appQ = << >>

CountKind(q, kind) == Cardinality({i \in 1..Len(q) : q[i].kind = kind})

\* C13: each signal appends exactly one Shutdown event to the channel and the
\* signal thread goes on listening; the Shutdown events still queued plus the one
\* the loop has handled are as many as the signals; taking a Shutdown ends the
\* loop with no check, no message to the sink and no panic; and once the loop
\* has ended on Shutdown, the ones still queued change nothing.
C13_RedundantShutdown ==
    /\ [][signals' # signals =>
            /\ signals' = signals + 1
            /\ Len(appQ') = Len(appQ) + 1
            /\ IsPrefix(appQ, appQ')
            /\ appQ'[Len(appQ')].kind = "Shutdown"]_vars
    /\ [](/\ CountKind(appQ, "Shutdown") + (IF exit = "shutdown" THEN 1 ELSE 0) = signals
          /\ Alive /\ signals < MaxSignals => ENABLED SignalArrives)
    /\ [][event.kind # "Shutdown" /\ event'.kind = "Shutdown" =>
            /\ pc' = "done" /\ exit' = "shutdown"
            /\ appQ' = Tail(appQ)
            /\ running' = running /\ trayQ' = trayQ]_vars
    /\ [][exit = "shutdown" => UNCHANGED << pc, exit, running, appQ, trayQ >>]_vars

\* Two signals were delivered; the loop ended on the first Shutdown and the
\* second is still in the channel.
C13_Witness == signals = 2 /\ exit = "shutdown" /\ CountKind(appQ, "Shutdown") = 1

\* The messages the loop has put on the tray channel, in order.
LoopMsgs(q) == SelectSeq(q, LAMBDA m : m.kind \in {"Checking", "Updates"})

\* C14, for the loop's sends while the tray channel is open: taking a Checking
\* event appends a Checking message to the tray channel and starts the check; a
\* check that succeeds appends exactly one Updates message whose list is the
\* lines the command printed, in order, and a check that fails appends none;
\* Updates messages are appended at no other step.  On the tray channel the
\* loop's messages alternate, Checking first, so every Updates message follows
\* the Checking message of its cycle.  The tray shows an Updates message with
\* the icon of the list's length and the list as its menu; 30 entries with
\* thresholds 25 and 100 are a Warning.
C14_CheckCycle ==
    /\ [][event.kind = "none" /\ event'.kind = "Checking" /\ tray # "dead" =>
            /\ trayQ' = Append(trayQ, TrayMsg("Checking", << >>))
            /\ pc' = "checking" \/ exit' = "check_failed"]_vars
    /\ [][pc = "checking" /\ pc' = "recv" =>
            \E o \in SysOutcomes :
              /\ check_updates(o).ok
              /\ trayQ' = Append(trayQ, TrayMsg("Updates", o.lines))]_vars
    /\ [][pc = "checking" /\ pc' = "done" => trayQ' = trayQ]_vars
    /\ [][Len(trayQ') > Len(trayQ) /\ trayQ'[Len(trayQ')].kind = "Updates" =>
            pc = "checking" /\ pc' = "recv"]_vars
    /\ [](LET L == LoopMsgs(trayQ) IN
            /\ \A i \in 2..Len(L) : L[i].kind # L[i - 1].kind
            /\ L # << >> =>
                 (L[Len(L)].kind = "Checking" <=>
                    pc = "checking" \/ exit = "check_failed"))
    /\ [][(/\ trayQ # << >> /\ Head(trayQ).kind = "Updates"
           /\ trayQ' = Tail(trayQ) /\ tray' = "running") =>
            LET n == Len(Head(trayQ).list) IN
            /\ menu' = Head(trayQ).list
            /\ icon' = IF n = 0 THEN "no-updates"
                       ELSE IF n < config.warning_threshold THEN "updates"
                       ELSE IF n < config.critical_threshold THEN "updates-warn"
                       ELSE "updates-critical"]_vars
    /\ [](classify(30, 25, 100) = "Warning")

\* The tray shows the two updates of one cycle as a warning, and the Checking
\* and the Updates message of the next cycle wait on its channel.
C14_Witness ==
    /\ icon = "updates-warn"
    /\ menu = <<"a", "b">>
    /\ Len(trayQ) >= 2
    /\ trayQ[1].kind = "Checking"
    /\ trayQ[2] = TrayMsg("Updates", <<"a", "b">>)

\* C15: a timer tick and a filesystem-change event queued together are both
\* handled, each by its own cycle, unless a check fails or the loop handles a
\* Shutdown first: the loop does not end for any other reason with both unhandled.
C15_Claim ==
    pc = "done" /\ HasKind(appQ, "Checking") /\ HasKind(appQ, "Updating")
        => exit \in {"shutdown", "check_failed"}

\* C16: taking an Updating event starts a delay that ends 5 s later and sends
\* nothing; during the delay no check runs and none can start; the delay ends,
\* not before its time, by appending exactly one Checking event to the loop's
\* own channel; and every check that starts afterwards, the follow-up included,
\* starts at or after the end of the delay.
C16_SettleThenRecheck ==
    /\ [][event.kind = "none" /\ event'.kind = "Updating" =>
            /\ pc' = "settling"
            /\ wake' = now + SettleSecs * 1000
            /\ appQ' = Tail(appQ) /\ trayQ' = trayQ
            /\ running' = 0]_vars
    /\ [](pc = "settling" =>
            running = 0 /\ event.kind = "Updating" /\ ~ENABLED LoopChecking)
    /\ [][pc = "settling" => running' = 0]_vars
    /\ [][pc = "settling" /\ pc' # "settling" =>
            /\ now >= wake
            /\ pc' = "recv"
            /\ appQ' = Append(appQ, FollowUp)]_vars
    /\ [][running' > running => now >= wake]_vars

\* The delay is over and the follow-up check runs: the event being handled was
\* sent when the delay had ended, and the timer's last tick was before that.
C16_Witness ==
    /\ pc = "checking"
    /\ wake > 0 /\ now >= wake
    /\ event = FollowUp
    /\ timerWake < wake + config.inverval_in_seconds * 1000

\* C17: once an accepted notification has fired, its Updating event is on its
\* way to the event loop (on the tray channel, to be forwarded, or on the loop's
\* channel) or the loop has taken an Updating event.
C17_Claim ==
    (\E i \in 1..Len(accepted) : accepted[i].fired) =>
        HasKind(trayQ, "Updating") \/ HasKind(appQ, "Updating") \/ wake > 0

\* Each of the four causes the claim names makes main_startup fail.
StartupFailsFast ==
    \A env \in StartupEnvs :
        \/ env.which = "missing"
        \/ ~env.runtime_dir
        \/ ~env.lock_free
        \/ env.config_file = "malformed"
        => main_startup(env) \in StartupErrors

\* C18: a missing command, an unset runtime directory, a lock that is held or a
\* malformed configuration file makes main() return an error; and when main()
\* has returned a start-up error no thread has been started, both channels are
\* empty, no check was started, and no thread or loop step can happen.
C18_StartupErrorsFirst ==
    /\ StartupFailsFast
    /\ exit \in StartupErrors =>
         /\ pc = "done"
         /\ appQ = << >> /\ trayQ = << >>
         /\ watcher = "init" /\ tray = "init" /\ signals = 0
         /\ timerWake = config.inverval_in_seconds * 1000
         /\ running = 0 /\ event = NoEvent
         /\ ~ENABLED Next

\* main() has returned because another instance holds the lock.
C18_Witness == exit = "lock_held" /\ pc = "done"

\* C19: any two calls that fired are at least debounce_duration apart; a call
\* that is suppressed leaves the debouncer as it was; and a call made after a
\* call that fired, fires exactly when debounce_duration has passed since the
\* last call that fired, whatever suppressed calls came in between.
C19_Spacing ==
    /\ [](\A i, j \in 1..Len(accepted) :
            /\ i < j /\ accepted[i].fired /\ accepted[j].fired
                 => accepted[j].t - accepted[i].t >= DebounceMillis
            /\ (/\ i < j /\ accepted[i].fired
                /\ \A k \in (i + 1)..(j - 1) : ~accepted[k].fired)
                 => (accepted[j].fired <=>
                       accepted[j].t - accepted[i].t >= DebounceMillis))
    /\ [][Len(accepted') > Len(accepted) /\ ~accepted'[Len(accepted')].fired
            => debouncer' = debouncer]_vars
    /\ [][Len(accepted') > Len(accepted) /\ accepted'[Len(accepted')].fired
            => debouncer'.last_trigger_time = now]_vars

\* Three calls half a window apart: the first fired, the second was suppressed,
\* the third fired.
C19_Witness ==
    \E i \in 1..(Len(accepted) - 2) :
        /\ accepted[i].fired
        /\ ~accepted[i + 1].fired
        /\ accepted[i + 1].t = accepted[i].t + DebounceMillis \div 2
        /\ accepted[i + 2].fired
        /\ accepted[i + 2].t = accepted[i].t + DebounceMillis

UpdatesIcons == {"no-updates", "updates", "updates-warn", "updates-critical"}

\* The loop's delay ends after the clock's last value.
Horizon == pc = "settling" /\ wake > MaxTime

\* Nothing is queued on either channel, no check runs, the loop waits for an
\* event and the tray shows the result of an Updates message.
Quiescent ==
    /\ pc = "recv" /\ running = 0
    /\ appQ = << >> /\ trayQ = << >>
    /\ icon \in UpdatesIcons

\* C20: with the tray alive, every check succeeding and no signal, whenever the
\* tray shows a Checking or an Updating message it later shows an Updates
\* message, and the system ends up quiescent for good with the tray showing an
\* Updates message; both up to a delay that ends after the clock's last value.
C20_NotStale ==
    /\ icon \in {"checking", "updating"} ~> (icon \in UpdatesIcons \/ Horizon)
    /\ <>[](Quiescent \/ Horizon)

\* The system is quiescent after a notification fired and the delay it started
\* is over.
C20_Witness ==
    /\ Quiescent
    /\ \E i \in 1..Len(accepted) : accepted[i].fired
    /\ wake > 0 /\ now >= wake
====
